---- MODULE Spec2Model ----
(***************************************************************************)
(* Token-classification feature encoding and its feature cache:           *)
(*   nemo/collections/nlp/data/token_classification/                       *)
(*       token_classification_dataset.py                                   *)
(* get_features is modelled as an operator computed loop by loop as the    *)
(* Python computes it (SpecF applies it to bounded batches);               *)
(* BertTokenClassificationDataset.__init__ is modelled as the steps one    *)
(* process takes between its accesses to the shared cache file (Spec).     *)
(***************************************************************************)
EXTENDS Integers, Sequences, FiniteSets, TLC

\* ------------------------------------------------------------------ bounds
\* Longest sentence, in whitespace-separated words.
MaxWords == 2
\* Largest max_seq_length a caller passes (1..MaxSeqLen).
MaxSeqLen == 6

\* A batch holds one or two sentences: get_features couples the sentences of
\* a batch only through max(sent_lengths).
BatchSizes == {1, 2}

\* --------------------------------------------------------- Python helpers
\* [x] * n ; a count below 1 gives the empty list.
Repeat(x, n) == [k \in 1..n |-> x]

\* xs[start:] with Python's rule for a negative start; -0 is 0.
SliceFrom(xs, start) ==
    LET n == Len(xs)
        s == IF start < 0 THEN (IF n + start < 0 THEN 0 ELSE n + start)
             ELSE (IF start > n THEN n ELSE start)
    IN  SubSeq(xs, s + 1, n)

\* xs[:n] for n >= 0
SliceTo(xs, n) == SubSeq(xs, 1, IF n > Len(xs) THEN Len(xs) ELSE n)

\* int(b)
BoolInt(b) == IF b THEN 1 ELSE 0

Min2(a, b) == IF a < b THEN a ELSE b

RECURSIVE MaxOf(_)
MaxOf(xs) ==
    IF Len(xs) = 1 THEN xs[1]
    ELSE LET m == MaxOf(Tail(xs)) IN IF xs[1] > m THEN xs[1] ELSE m

\* ------------------------------------------------------------- tokenizer
\* The tokenizer is a collaborator; this one has a three-word vocabulary:
\* a whole-word piece, a word split in two pieces, and a word the tokenizer
\* drops (a zero-width character: text_to_tokens returns []).
Vocab == {"john", "paris", "zwsp"}

cls_token == "[CLS]"
sep_token == "[SEP]"

\* tokenizer.text_to_tokens(word)
text_to_tokens(word) ==
    CASE word = "john"  -> <<"john">>
      [] word = "paris" -> <<"par", "##is">>
      [] OTHER          -> <<>>

\* id of one token
TokenId(t) ==
    CASE t = "[CLS]" -> 101
      [] t = "[SEP]" -> 102
      [] t = "john"  -> 5
      [] t = "par"   -> 6
      [] t = "##is"  -> 7
      [] OTHER       -> 100

\* A subtoken of the model carries the position (src) of the word it comes
\* from, 0 for a marker; tokens_to_ids does not read it.
Tok(t, j) == [tok |-> t, src |-> j]

\* tokenizer.tokens_to_ids(subtokens)
tokens_to_ids(subtokens) == [k \in 1..Len(subtokens) |-> TokenId(subtokens[k].tok)]

\* ------------------------------------------------------------ label ids
Labels == {"O", "B-PER"}
pad_label == "O"
label_ids == [l \in Labels |-> IF l = "O" THEN 0 ELSE 1]

\* ------------------------------------------------------------ get_features
\* loss_mask entries of one word of n subwords (lines 94-95)
WordLossMask(n, ignore_extra_tokens) ==
    <<1>> \o Repeat(BoolInt(~ignore_extra_tokens), n - 1)

\* mutant: every subword of a word is marked, not only the first
WordSubtokensMaskAll(n) == Repeat(1, n)

\* subtokens_mask entries of one word of n subwords (lines 97-98)
WordSubtokensMask(n) == <<1>> \o Repeat(0, n - 1)

\* mutant: only the first subword keeps the word's label, the rest get the pad id
WordLabelsFirstOnly(query_labels, j, n) == IF n > 0 THEN <<query_labels[j]>> \o Repeat(label_ids[pad_label], n - 1) ELSE <<>>

\* label entries of word j, of n subwords (line 101)
WordLabels(query_labels, j, n) == Repeat(query_labels[j], n)

\* The loop over the words of one sentence (lines 90-101), from word j on.
\* query_labels[j] past the end of the sentence's labels raises IndexError.
RECURSIVE WordLoop(_, _, _, _, _, _)
WordLoop(words, query_labels, with_label, ignore_extra_tokens, j, acc) ==
    IF j > Len(words) THEN acc
    ELSE
      LET word_tokens == text_to_tokens(words[j])
          n == Len(word_tokens)
      IN  IF with_label /\ j > Len(query_labels)
          THEN [acc EXCEPT !.err = "IndexError"]
          ELSE WordLoop(words, query_labels, with_label, ignore_extra_tokens, j + 1,
                 [subtokens      |-> acc.subtokens \o [k \in 1..n |-> Tok(word_tokens[k], j)],
                  loss_mask      |-> acc.loss_mask \o WordLossMask(n, ignore_extra_tokens),
                  subtokens_mask |-> acc.subtokens_mask \o WordSubtokensMask(n),
                  labels         |-> IF with_label
                                     THEN acc.labels \o WordLabels(query_labels, j, n)
                                     ELSE acc.labels,
                  err            |-> "none"])

\* One pass of the first loop (lines 78-114): words is query.strip().split(),
\* raw is raw_labels[i].
EncodeSentence(words, raw, with_label, ignore_extra_tokens, ignore_start_end) ==
    LET pad_id == label_ids[pad_label]
        query_labels == [k \in 1..Len(raw) |-> label_ids[raw[k]]]
        body == WordLoop(words, query_labels, with_label, ignore_extra_tokens, 1,
                  [subtokens      |-> <<Tok(cls_token, 0)>>,
                   loss_mask      |-> <<1 - BoolInt(ignore_start_end)>>,
                   subtokens_mask |-> <<0>>,
                   labels         |-> IF with_label THEN <<pad_id>> ELSE <<>>,
                   err            |-> "none"])
        subtokens == body.subtokens \o <<Tok(sep_token, 0)>>
    IN  [subtokens      |-> subtokens,
         loss_mask      |-> body.loss_mask \o <<1 - BoolInt(ignore_start_end)>>,
         subtokens_mask |-> body.subtokens_mask \o <<0>>,
         input_mask     |-> Repeat(1, Len(subtokens)),
         labels         |-> IF with_label THEN body.labels \o <<pad_id>> ELSE <<>>,
         err            |-> body.err]

\* The first loop (lines 78-114) from sentence i on: the sentences encoded
\* before the first one that raises, and the error raised ("none" if none).
RECURSIVE FirstLoop(_, _, _, _, _, _, _)
FirstLoop(queries, raw_labels, with_label, ignore_extra_tokens, ignore_start_end, i, done) ==
    IF i > Len(queries) THEN [sents |-> done, err |-> "none"]
    ELSE
      LET e == EncodeSentence(queries[i], IF with_label THEN raw_labels[i] ELSE <<>>,
                              with_label, ignore_extra_tokens, ignore_start_end)
      IN  IF e.err # "none" THEN [sents |-> done, err |-> e.err]
          ELSE FirstLoop(queries, raw_labels, with_label, ignore_extra_tokens,
                         ignore_start_end, i + 1, Append(done, e))

\* The slice that keeps the tail of a too long array (lines 123-129):
\* xs[-max_seq_length + 1 :]
TailSlice(xs, max_seq_length) == SliceFrom(xs, (0 - max_seq_length) + 1)

\* One pass of the second loop (lines 121-144) for the encoded sentence s,
\* max_seq_length being the effective length of line 116.
Finish(s, max_seq_length, with_label, ignore_start_end) ==
    LET pad_id == label_ids[pad_label]
        too_long == Len(s.subtokens) > max_seq_length
        subtokens == IF too_long
                     THEN <<Tok(cls_token, 0)>> \o TailSlice(s.subtokens, max_seq_length)
                     ELSE s.subtokens
        input_mask == IF too_long
                      THEN <<1>> \o TailSlice(s.input_mask, max_seq_length)
                      ELSE s.input_mask
        loss_mask == IF too_long
                     THEN <<BoolInt(~ignore_start_end)>> \o TailSlice(s.loss_mask, max_seq_length)
                     ELSE s.loss_mask
        subtokens_mask == IF too_long
                          THEN <<0>> \o TailSlice(s.subtokens_mask, max_seq_length)
                          ELSE s.subtokens_mask
        labels == IF too_long /\ with_label
                  THEN <<pad_id>> \o TailSlice(s.labels, max_seq_length)
                  ELSE s.labels
        input_ids == tokens_to_ids(subtokens)
        short == Len(subtokens) < max_seq_length
        extra == max_seq_length - Len(subtokens)
    IN  [subtokens      |-> subtokens,
         input_ids      |-> IF short THEN input_ids \o Repeat(0, extra) ELSE input_ids,
         segment_ids    |-> Repeat(0, max_seq_length),
         input_mask     |-> IF short THEN input_mask \o Repeat(0, extra) ELSE input_mask,
         loss_mask      |-> IF short THEN loss_mask \o Repeat(0, extra) ELSE loss_mask,
         subtokens_mask |-> IF short THEN subtokens_mask \o Repeat(0, extra) ELSE subtokens_mask,
         labels         |-> IF short /\ with_label THEN labels \o Repeat(pad_id, extra) ELSE labels,
         too_long       |-> BoolInt(too_long)]

\* max_seq_length = min(max_seq_length, max(sent_lengths))  (line 116)
EffectiveMaxLength(max_seq_length, sent_lengths) == Min2(max_seq_length, MaxOf(sent_lengths))

RECURSIVE SumSeq(_)
SumSeq(xs) == IF xs = <<>> THEN 0 ELSE xs[1] + SumSeq(Tail(xs))

NoFeatures ==
    [all_input_ids |-> <<>>, all_segment_ids |-> <<>>, all_input_mask |-> <<>>,
     all_loss_mask |-> <<>>, all_subtokens_mask |-> <<>>, all_labels |-> <<>>]

\* get_features (lines 39-157). queries: one word list per sentence;
\* raw_labels: one label list per sentence (read only when with_label).
\* err # "none": the call raised after encoding `encoded` sentences.
\* Besides the six returned lists (features) the record keeps what the
\* function logs: too_long_count, the effective max_seq_length, and the
\* subtokens each record was built from.
get_features(queries, max_seq_length, raw_labels, with_label, ignore_extra_tokens, ignore_start_end) ==
    LET first == FirstLoop(queries, raw_labels, with_label, ignore_extra_tokens,
                           ignore_start_end, 1, <<>>)
    IN  IF first.err # "none"
        THEN [err |-> first.err, encoded |-> Len(first.sents), features |-> NoFeatures,
              too_long_count |-> 0, max_seq_length |-> max_seq_length,
              subtokens |-> <<>>, sent_lengths |-> <<>>]
        ELSE
          LET n == Len(queries)
              sent_lengths == [i \in 1..n |-> Len(first.sents[i].subtokens)]
              eff == EffectiveMaxLength(max_seq_length, sent_lengths)
              fin == [i \in 1..n |-> Finish(first.sents[i], eff, with_label, ignore_start_end)]
          IN  [err |-> "none", encoded |-> n,
               features |->
                 [all_input_ids      |-> [i \in 1..n |-> fin[i].input_ids],
                  all_segment_ids    |-> [i \in 1..n |-> fin[i].segment_ids],
                  all_input_mask     |-> [i \in 1..n |-> fin[i].input_mask],
                  all_loss_mask      |-> [i \in 1..n |-> fin[i].loss_mask],
                  all_subtokens_mask |-> [i \in 1..n |-> fin[i].subtokens_mask],
                  all_labels         |-> IF with_label THEN [i \in 1..n |-> fin[i].labels]
                                         ELSE <<>>],
               too_long_count |-> SumSeq([i \in 1..n |-> fin[i].too_long]),
               max_seq_length |-> eff,
               subtokens |-> [i \in 1..n |-> fin[i].subtokens],
               sent_lengths |-> sent_lengths]

NoReturn ==
    [err |-> "none", encoded |-> 0, features |-> NoFeatures, too_long_count |-> 0,
     max_seq_length |-> 0, subtokens |-> <<>>, sent_lengths |-> <<>>]

\* ------------------------------------------------------------- the state
VARIABLES
    \* arguments shared by a call of get_features and by a construction
    max_seq_length,
    ignore_extra_tokens,
    ignore_start_end,
    \* a call of get_features (SpecF)
    queries,              \* the batch, one word list per sentence
    raw_labels,           \* one label list per sentence
    fpc,                  \* "call", then "labeled" or "infer"
    ret,                  \* what get_features returned
    \* constructions of BertTokenClassificationDataset (Spec)
    distributed,          \* torch.distributed.is_initialized()
    text_file,            \* the text file and its label file
    num_samples,
    overwrite_processed_files,
    cache,                \* the file at features_pkl
    pc,                   \* where each process is in __init__
    run,                  \* the construction each process is in (0: none yet)
    features,             \* each process's local `features`
    arrived,              \* barriers each process has entered
    loaded,               \* the datasets each process has built, in order
    err,                  \* the exception that ended each process
    called,               \* runs in which the process called get_features
    encoded,              \* sentences a failed get_features call had encoded
    missed,               \* runs in which os.path.exists(features_pkl) was False
    wrote,                \* runs in which the process opened the cache for writing
    dumped                \* runs in which the process's pickle.dump completed

fargs == <<max_seq_length, ignore_extra_tokens, ignore_start_end>>
fvars == <<queries, raw_labels, fpc, ret>>
cvars == <<distributed, text_file, num_samples, overwrite_processed_files, cache, pc, run, features, arrived, loaded, err, called, encoded, missed, wrote, dumped>>
vars == <<fargs, fvars, cvars>>

\* what no step of a construction changes: its arguments, and the call of SpecF
cargs == <<distributed, text_file, num_samples, overwrite_processed_files, fargs, fvars>>

\* ------------------------------------------- Spec: constructions of the dataset
\* Processes of the job, named by their rank, and constructions per process.
NumProcs == 2
MaxRuns == 2

Procs == 0..(NumProcs - 1)

\* Without torch.distributed there is one process.
Ranks == IF distributed THEN Procs ELSE {0}

\* The text files a construction is given, each with its label file: text
\* lines as word lists, label lines as line.strip().split() leaves them.
Corpora ==
    { [filename |-> "train.txt",
       text_lines   |-> << <<"john", "paris">>, <<"john">> >>,
       labels_lines |-> << <<"B-PER", "O">>, <<"O">> >>],
      [filename |-> "fewer.txt",
       text_lines   |-> << <<"john">>, <<"john", "paris">> >>,
       labels_lines |-> << <<"O">>, <<"B-PER">> >>],
      [filename |-> "more.txt",
       text_lines   |-> << <<"paris">>, <<"john">> >>,
       labels_lines |-> << <<"B-PER", "O">>, <<"O">> >>],
      [filename |-> "lines.txt",
       text_lines   |-> << <<"john">>, <<"paris">> >>,
       labels_lines |-> << <<"O">> >>],
      [filename |-> "train.tsv",
       text_lines   |-> << <<"john">> >>,
       labels_lines |-> << <<"O">> >>] }

\* filename.endswith('.txt')  (line 225)
EndsWithTxt(filename) == filename # "train.tsv"

NumSamplesArgs == {-1, 0, 1}

Absent == [st |-> "absent", data |-> NoFeatures]
Partial == [st |-> "partial", data |-> NoFeatures]
Complete(f) == [st |-> "complete", data |-> f]

\* What an earlier job left at features_pkl: the features of an earlier,
\* one-line version of the file (the path does not depend on the content).
StaleFeatures(msl) == get_features(<< <<"john">> >>, msl, << <<"O">> >>, TRUE, FALSE, FALSE).features

\* mutant: the rank is not looked at
master_device_any_rank(p) == TRUE

\* master_device  (line 234)
master_device(p) == ~distributed \/ p = 0

\* mutant: the primary recomputes whether or not the file exists
NeedFeaturesAlways(p) == master_device(p)

\* the condition of line 235; os.path.exists is true of a file being written
NeedFeatures(p) ==
    master_device(p) /\ (overwrite_processed_files \/ cache.st = "absent")

\* The checks of lines 236-249: the error they raise, "none" if none.
Validate ==
    IF num_samples = 0 THEN "ValueError"
    ELSE IF Len(text_file.labels_lines) # Len(text_file.text_lines) THEN "ValueError"
    ELSE "none"

\* dataset[:num_samples], unzipped  (lines 251-257)
Sample(lines) == IF num_samples > 0 THEN SliceTo(lines, num_samples) ELSE lines

\* mutant: the barrier does not wait
BarrierOpenNoWait(p) == TRUE

\* mutant: the barrier gives up on a process that has failed
BarrierOpenAmongLive(p) == \A q \in Procs : pc[q] = "failed" \/ arrived[q] >= arrived[p]

\* the barrier lets a process go once every process of the job has entered it
BarrierOpen(p) == \A q \in Procs : arrived[q] >= arrived[p]

Init ==
    /\ distributed \in BOOLEAN
    /\ text_file \in Corpora
    /\ num_samples \in NumSamplesArgs
    /\ overwrite_processed_files \in BOOLEAN
    /\ max_seq_length \in 1..MaxSeqLen
    /\ ignore_extra_tokens = FALSE
    /\ ignore_start_end = FALSE
    /\ cache \in {Absent, Complete(StaleFeatures(max_seq_length))}
    /\ pc = [p \in Procs |-> "ready"]
    /\ run = [p \in Procs |-> 0]
    /\ features = [p \in Procs |-> NoFeatures]
    /\ arrived = [p \in Procs |-> 0]
    /\ loaded = [p \in Procs |-> <<>>]
    /\ err = [p \in Procs |-> "none"]
    /\ called = [p \in Procs |-> {}]
    /\ encoded = [p \in Procs |-> 0]
    /\ missed = [p \in Procs |-> {}]
    /\ wrote = [p \in Procs |-> {}]
    /\ dumped = [p \in Procs |-> {}]
    /\ queries = <<>> /\ raw_labels = <<>> /\ fpc = "none" /\ ret = NoReturn

\* __init__ up to the barrier, the write of the cache excepted (lines 222-268)
Begin(p) ==
    /\ p \in Ranks
    /\ pc[p] = "ready"
    /\ run[p] < MaxRuns
    /\ run' = [run EXCEPT ![p] = @ + 1]
    /\ IF ~EndsWithTxt(text_file.filename)
       THEN /\ pc' = [pc EXCEPT ![p] = "failed"]
            /\ err' = [err EXCEPT ![p] = "ValueError"]
            /\ UNCHANGED <<features, called, encoded, missed>>
       ELSE IF ~NeedFeatures(p)
       THEN /\ pc' = [pc EXCEPT ![p] = "sync"]
            /\ missed' = [missed EXCEPT ![p] = IF cache.st = "absent" THEN @ \cup {run[p] + 1} ELSE @]
            /\ UNCHANGED <<err, features, called, encoded>>
       ELSE IF Validate # "none"
       THEN /\ pc' = [pc EXCEPT ![p] = "failed"]
            /\ err' = [err EXCEPT ![p] = Validate]
            /\ missed' = [missed EXCEPT ![p] = IF cache.st = "absent" THEN @ \cup {run[p] + 1} ELSE @]
            /\ UNCHANGED <<features, called, encoded>>
       ELSE \E text_lines \in {Sample(text_file.text_lines)}, labels_lines \in {Sample(text_file.labels_lines)} :
            \E r \in {get_features(text_lines, max_seq_length, labels_lines, TRUE, ignore_extra_tokens, ignore_start_end)} :
                /\ pc' = [pc EXCEPT ![p] = IF r.err = "none" THEN "dump" ELSE "failed"]
                /\ err' = [err EXCEPT ![p] = r.err]
                /\ features' = [features EXCEPT ![p] = r.features]
                /\ called' = [called EXCEPT ![p] = @ \cup {run[p] + 1}]
                /\ encoded' = [encoded EXCEPT ![p] = r.encoded]
                /\ missed' = [missed EXCEPT ![p] = IF cache.st = "absent" THEN @ \cup {run[p] + 1} ELSE @]
    /\ UNCHANGED <<cache, arrived, loaded, wrote, dumped, cargs>>

\* open(features_pkl, "wb")  (line 270): the file exists and is empty
OpenDump(p) ==
    /\ pc[p] = "dump"
    /\ cache' = Partial
    /\ wrote' = [wrote EXCEPT ![p] = @ \cup {run[p]}]
    /\ pc' = [pc EXCEPT ![p] = "writing"]
    /\ UNCHANGED <<run, features, arrived, loaded, err, called, encoded, missed, dumped, cargs>>

\* pickle.dump(features, ...) has written the whole file  (line 270)
FinishDump(p) ==
    /\ pc[p] = "writing"
    /\ cache' = Complete(features[p])
    /\ dumped' = [dumped EXCEPT ![p] = @ \cup {run[p]}]
    /\ pc' = [pc EXCEPT ![p] = "sync"]
    /\ UNCHANGED <<run, features, arrived, loaded, err, called, encoded, missed, wrote, cargs>>

\* torch.distributed.barrier() is entered  (lines 274-275)
EnterBarrier(p) ==
    /\ pc[p] = "sync"
    /\ distributed
    /\ arrived' = [arrived EXCEPT ![p] = @ + 1]
    /\ pc' = [pc EXCEPT ![p] = "waiting"]
    /\ UNCHANGED <<cache, run, features, loaded, err, called, encoded, missed, wrote, dumped, cargs>>

\* torch.distributed.barrier() returns  (line 275)
LeaveBarrier(p) ==
    /\ pc[p] = "waiting"
    /\ BarrierOpen(p)
    /\ pc' = [pc EXCEPT ![p] = "load"]
    /\ UNCHANGED <<cache, run, features, arrived, loaded, err, called, encoded, missed, wrote, dumped, cargs>>

\* no barrier without torch.distributed  (line 274)
SkipBarrier(p) ==
    /\ pc[p] = "sync"
    /\ ~distributed
    /\ pc' = [pc EXCEPT ![p] = "load"]
    /\ UNCHANGED <<cache, run, features, arrived, loaded, err, called, encoded, missed, wrote, dumped, cargs>>

\* pickle.load(open(features_pkl, 'rb')) and the six assignments (lines
\* 277-285); a missing file raises FileNotFoundError, a file whose dump is
\* not complete raises EOFError
Load(p) ==
    /\ pc[p] = "load"
    /\ IF cache.st = "complete"
       THEN /\ features' = [features EXCEPT ![p] = cache.data]
            /\ loaded' = [loaded EXCEPT ![p] = Append(@, cache.data)]
            /\ pc' = [pc EXCEPT ![p] = "ready"]
            /\ UNCHANGED err
       ELSE /\ pc' = [pc EXCEPT ![p] = "failed"]
            /\ err' = [err EXCEPT ![p] = IF cache.st = "absent" THEN "FileNotFoundError" ELSE "EOFError"]
            /\ UNCHANGED <<features, loaded>>
    /\ UNCHANGED <<cache, run, arrived, called, encoded, missed, wrote, dumped, cargs>>

Next ==
    \/ \E p \in Procs : Begin(p)
    \/ \E p \in Procs : OpenDump(p)
    \/ \E p \in Procs : FinishDump(p)
    \/ \E p \in Procs : EnterBarrier(p)
    \/ \E p \in Procs : LeaveBarrier(p)
    \/ \E p \in Procs : SkipBarrier(p)
    \/ \E p \in Procs : Load(p)

Spec == Init /\ [][Next]_vars

\* ------------------------------------------------- SpecF: calls of get_features
\* A sentence with its labels, one (word, label) pair per word: up to
\* MaxWords words the tokenizer splits in pieces, or one word it drops.
KeptWords == {w \in Vocab : text_to_tokens(w) # <<>>}
LabeledSentences ==
    UNION {[1..n -> KeptWords \X Labels] : n \in 0..MaxWords}
      \cup [1..1 -> (Vocab \ KeptWords) \X Labels]

Batches == UNION {[1..k -> LabeledSentences] : k \in BatchSizes}

\* The arguments of a call: a batch whose sentences have one label per word.
FInit ==
    /\ \E b \in Batches :
         /\ queries = [i \in 1..Len(b) |-> [j \in 1..Len(b[i]) |-> b[i][j][1]]]
         /\ raw_labels = [i \in 1..Len(b) |-> [j \in 1..Len(b[i]) |-> b[i][j][2]]]
    /\ max_seq_length \in 1..MaxSeqLen
    /\ ignore_extra_tokens \in BOOLEAN
    /\ ignore_start_end \in BOOLEAN
    /\ fpc = "call"
    /\ ret = NoReturn
    /\ distributed = FALSE
    /\ text_file = [filename |-> "", text_lines |-> <<>>, labels_lines |-> <<>>]
    /\ num_samples = -1
    /\ overwrite_processed_files = FALSE
    /\ cache = Absent
    /\ pc = [p \in Procs |-> "none"]
    /\ run = [p \in Procs |-> 0]
    /\ features = [p \in Procs |-> NoFeatures]
    /\ arrived = [p \in Procs |-> 0]
    /\ loaded = [p \in Procs |-> <<>>]
    /\ err = [p \in Procs |-> "none"]
    /\ called = [p \in Procs |-> {}]
    /\ encoded = [p \in Procs |-> 0]
    /\ missed = [p \in Procs |-> {}]
    /\ wrote = [p \in Procs |-> {}]
    /\ dumped = [p \in Procs |-> {}]

\* The labeled call of BertTokenClassificationDataset.__init__ (lines 259-268)
Encode ==
    /\ fpc = "call"
    /\ ret' = get_features(queries, max_seq_length, raw_labels, TRUE, ignore_extra_tokens, ignore_start_end)
    /\ fpc' = "labeled"
    /\ UNCHANGED <<fargs, queries, raw_labels, cvars>>

\* The unlabeled call of BertTokenClassificationInferDataset.__init__
\* (line 332): no labels, both flags at their default
Infer ==
    /\ fpc = "call"
    /\ ~ignore_extra_tokens /\ ~ignore_start_end
    /\ ret' = get_features(queries, max_seq_length, <<>>, FALSE, FALSE, FALSE)
    /\ fpc' = "infer"
    /\ UNCHANGED <<fargs, queries, raw_labels, cvars>>

FNext == Encode \/ Infer

SpecF == FInit /\ [][FNext]_vars

\* ------------------------------------------------- what the claims speak of
\* Number of subwords of a word, and of the words before word j of a sentence.
PieceCount(word) == Len(text_to_tokens(word))

RECURSIVE PiecesBefore(_, _)
PiecesBefore(words, j) ==
    IF j <= 1 THEN 0 ELSE PiecesBefore(words, j - 1) + PieceCount(words[j - 1])

\* Length of a sentence's subtoken sequence, both markers included.
SentLen(words) == 2 + PiecesBefore(words, Len(words) + 1)

\* min(max_seq_length, longest subtoken sequence of the batch)
EffectiveLen ==
    Min2(max_seq_length, MaxOf([i \in 1..Len(queries) |-> SentLen(queries[i])]))

\* the last n entries of xs (all of xs when it has fewer)
LastN(xs, n) == SubSeq(xs, IF Len(xs) > n THEN Len(xs) - n + 1 ELSE 1, Len(xs))

Returned == fpc \in {"labeled", "infer"} /\ ret.err = "none"
ReturnedLabeled == fpc = "labeled" /\ ret.err = "none"

\* C1: after a labeled call, every per-sentence list of the six returned
\* has length min(max_seq_length, longest subtoken sequence of the batch).
C1_EveryListHasEffectiveLength ==
    ReturnedLabeled =>
      \A i \in 1..Len(queries) :
        /\ Len(ret.features.all_input_ids[i]) = EffectiveLen
        /\ Len(ret.features.all_segment_ids[i]) = EffectiveLen
        /\ Len(ret.features.all_input_mask[i]) = EffectiveLen
        /\ Len(ret.features.all_loss_mask[i]) = EffectiveLen
        /\ Len(ret.features.all_subtokens_mask[i]) = EffectiveLen
        /\ Len(ret.features.all_labels[i]) = EffectiveLen

\* C7: for a sentence that is not truncated and whose words all tokenize to
\* one subword or more, subtokens_mask is 1 exactly at the first subword of
\* each word (so it has as many 1s as the sentence has words) and 0 at the
\* markers and at the padding.
C7_SubtokensMaskMarksFirstSubwords ==
    Returned =>
      \A i \in 1..Len(queries) :
        ((\A j \in 1..Len(queries[i]) : PieceCount(queries[i][j]) >= 1)
           /\ SentLen(queries[i]) <= EffectiveLen) =>
          LET m == ret.features.all_subtokens_mask[i]
              firsts == {1 + PiecesBefore(queries[i], j) + 1 : j \in 1..Len(queries[i])}
          IN  /\ Len(m) = EffectiveLen
              /\ \A q \in 1..Len(m) : m[q] = (IF q \in firsts THEN 1 ELSE 0)
              /\ Cardinality({q \in 1..Len(m) : m[q] = 1}) = Len(queries[i])

\* C7 witness: a two-word sentence with a two-piece word, padded by one.
C7_Witness ==
    /\ fpc = "labeled"
    /\ queries = << <<"paris", "john">>, <<"paris", "paris">> >>
    /\ max_seq_length = 6
    /\ ret.features.all_subtokens_mask[1] = <<0, 1, 0, 1, 0, 0>>

\* C8: a sentence longer than the effective length L is cut, in every list,
\* to the start entry followed by the last L-1 entries of the list, and adds
\* exactly 1 to the count of too long sentences; a sentence of exactly L
\* subtokens is left as it is and adds nothing.
C8_TruncationKeepsStartAndTail ==
    ReturnedLabeled =>
      /\ \A i \in 1..Len(queries) :
           LET s == EncodeSentence(queries[i], raw_labels[i], TRUE, ignore_extra_tokens, ignore_start_end)
               ids == tokens_to_ids(s.subtokens)
               L == EffectiveLen
           IN  /\ Len(s.subtokens) > L =>
                     /\ ret.features.all_input_ids[i] = <<ids[1]>> \o LastN(ids, L - 1)
                     /\ ret.features.all_input_mask[i] = <<s.input_mask[1]>> \o LastN(s.input_mask, L - 1)
                     /\ ret.features.all_loss_mask[i] = <<s.loss_mask[1]>> \o LastN(s.loss_mask, L - 1)
                     /\ ret.features.all_subtokens_mask[i] = <<s.subtokens_mask[1]>> \o LastN(s.subtokens_mask, L - 1)
                     /\ ret.features.all_labels[i] = <<s.labels[1]>> \o LastN(s.labels, L - 1)
               /\ Len(s.subtokens) = L =>
                     /\ ret.features.all_input_ids[i] = ids
                     /\ ret.features.all_input_mask[i] = s.input_mask
                     /\ ret.features.all_loss_mask[i] = s.loss_mask
                     /\ ret.features.all_subtokens_mask[i] = s.subtokens_mask
                     /\ ret.features.all_labels[i] = s.labels
      /\ ret.too_long_count = Cardinality({i \in 1..Len(queries) : SentLen(queries[i]) > EffectiveLen})

\* C9: in a labeled call the label at every position of every record is the
\* label id of the word the subtoken at that position comes from, and the
\* pad id at a marker and at the padding; the two flags do not change it.
C9_LabelsFollowTheSourceWord ==
    ReturnedLabeled =>
      /\ \A i \in 1..Len(queries) :
           LET labels == ret.features.all_labels[i]
               subtokens == ret.subtokens[i]
           IN  /\ Len(labels) = Len(ret.features.all_input_ids[i])
               /\ \A q \in 1..Len(labels) :
                    labels[q] = IF q <= Len(subtokens) /\ subtokens[q].src > 0
                                THEN label_ids[raw_labels[i][subtokens[q].src]]
                                ELSE label_ids[pad_label]
      /\ ret.features.all_labels
           = get_features(queries, max_seq_length, raw_labels, TRUE, FALSE, FALSE).features.all_labels

\* C9 witness: a continuation subword carries its word's label although
\* both flags are set.
C9_Witness ==
    /\ fpc = "labeled"
    /\ ignore_extra_tokens /\ ignore_start_end
    /\ queries = << <<"john", "paris">> >>
    /\ raw_labels = << <<"O", "B-PER">> >>
    /\ max_seq_length = 5
    /\ ret.features.all_labels[1] = <<0, 0, 1, 1, 0>>
    /\ ret.features.all_loss_mask[1] = <<0, 1, 1, 0, 0>>

\* ------------------------------------------------ claims about the cache
\* The primary has entered barrier r, and a write it began in run r is complete.
PrimaryPastWrite(r) == arrived[0] >= r /\ (r \in wrote[0] => r \in dumped[0])

\* A process has read the cache in run r, or is about to.
ReadsInRun(p, r) ==
    \/ pc[p] = "load" /\ run[p] = r
    \/ Len(loaded[p]) >= r
    \/ pc[p] = "failed" /\ err[p] \in {"EOFError", "FileNotFoundError"} /\ run[p] = r

\* C2: only rank 0 (the sole process without torch.distributed) ever opens
\* the cache file for writing, and only in a run in which the overwrite flag
\* is set or the file was absent at line 235; no other rank is ever at the
\* write.
C2_OnlyThePrimaryWrites ==
    \A p \in Procs :
      /\ pc[p] \in {"dump", "writing"} => p = 0
      /\ \A r \in wrote[p] : p = 0 /\ (overwrite_processed_files \/ r \in missed[p])

\* C2 witness: rank 1 has built a dataset from a file rank 0 wrote.
C2_Witness ==
    /\ distributed
    /\ wrote[0] = {1} /\ wrote[1] = {}
    /\ Len(loaded[1]) = 1
    /\ cache = Complete(loaded[1][1])

\* C3: in a job with torch.distributed, a process that reads the cache in
\* run r has entered barrier r, the primary has entered it too, and a write
\* the primary began in run r was complete before the primary entered it.
C3_NoReadBeforeThePrimaryIsDone ==
    distributed =>
      /\ \A p \in Procs : \A r \in 1..MaxRuns :
           ReadsInRun(p, r) => arrived[p] >= r /\ PrimaryPastWrite(r)
      /\ \A r \in 1..arrived[0] : r \in wrote[0] => r \in dumped[0]

\* C3 witness: rank 1 is about to read what rank 0 wrote in the same run.
C3_Witness ==
    /\ distributed
    /\ pc[1] = "load" /\ run[1] = 1
    /\ wrote[0] = {1} /\ dumped[0] = {1}
    /\ cache.st = "complete"

\* C4: without the overwrite flag, a construction after the first neither
\* calls get_features nor writes the cache; the cache keeps the content the
\* first construction read, and every later dataset equals the first.
C4_SecondConstructionReusesTheCache ==
    ~overwrite_processed_files =>
      \A p \in Ranks :
        /\ \A r \in called[p] \cup wrote[p] : r = 1
        /\ run[p] >= 2 => cache = Complete(loaded[p][1])
        /\ \A r \in 2..Len(loaded[p]) : loaded[p][r] = loaded[p][1]

\* C4 witness: rank 0 computed and wrote in its first construction and has
\* built a second dataset.
C4_Witness ==
    /\ ~overwrite_processed_files
    /\ called[0] = {1} /\ wrote[0] = {1}
    /\ Len(loaded[0]) = 2
    /\ loaded[0][1].all_input_ids # <<>>

\* C5: with num_samples = 0 every construction that was started has failed
\* with ValueError and built no dataset.
C5_ZeroSamplesAlwaysFails ==
    num_samples = 0 =>
      \A p \in Ranks :
        run[p] >= 1 => pc[p] = "failed" /\ err[p] = "ValueError" /\ loaded[p] = <<>>

\* Some line has a number of labels other than its number of words.
LabelCountMismatch ==
    \E i \in 1..Min2(Len(text_file.text_lines), Len(text_file.labels_lines)) :
       Len(text_file.labels_lines[i]) # Len(text_file.text_lines[i])

\* C6: when a line's label count differs from its word count, every
\* construction that was started has failed with ValueError, get_features
\* was never called and nothing was written to the cache.
C6_LabelCountMismatchFailsFirst ==
    LabelCountMismatch =>
      \A p \in Ranks :
        /\ called[p] = {} /\ wrote[p] = {}
        /\ run[p] >= 1 => pc[p] = "failed" /\ err[p] = "ValueError"

\* C10: in a job with torch.distributed, once the primary has failed in its
\* run r without entering barrier r, no other rank is past barrier r: none
\* reads the cache in run r or starts a later run.
C10_PrimaryFailureBlocksTheOthers ==
    (distributed /\ pc[0] = "failed" /\ arrived[0] < run[0]) =>
      \A p \in Procs \ {0} :
        /\ ~ReadsInRun(p, run[0])
        /\ run[p] <= run[0]
        /\ ~(pc[p] = "ready" /\ run[p] = run[0])

\* C10 witness: the primary failed computing the features while rank 1
\* waits in the barrier of the same run.
C10_Witness ==
    /\ distributed
    /\ pc[0] = "failed" /\ err[0] = "IndexError"
    /\ pc[1] = "waiting" /\ run[1] = run[0]

====
